---- MODULE Spec2Model ----
(***************************************************************************)
(* A model of integrations/github/github.go: the pull-request tracker      *)
(* (trackPullRequest, updatePullRequest, closedPullRequest,                 *)
(* buildPullRequest), the build ledger (trackBuild, untrackBuild) and the   *)
(* OAuth bootstrap (handleGithubAuth, setClient, acquireOauthToken, init,   *)
(* AttachToApp).                                                            *)
(*                                                                          *)
(* Every handler is a task; a task's pc names the statement it executes     *)
(* next.  One action is one step between two accesses of shared state (the  *)
(* tracking map, the lock g.m, the build engine, g.client, the condition    *)
(* variable), so that the interleavings of concurrent handlers are those    *)
(* of the Go program.                                                       *)
(***************************************************************************)
EXTENDS Integers, Sequences, FiniteSets, TLC

(***************************************************************************)
(* Bounds of the model.                                                     *)
(***************************************************************************)
\* webhook deliveries in one behaviour, each handled by a task of its own;
\* all of them may be in flight at the same time
MaxTasks == 3
\* AttachToApp calls in one behaviour
MaxAttach == 1
\* OAuth callbacks in one behaviour
MaxCallbacks == 2
\* build handles the ledger is called with
MaxBuilds == 3
\* trackBuild and untrackBuild calls in one behaviour
MaxLedgerCalls == 5

Tasks == 1..MaxTasks

\* pull.ID, rendered by strconv.Itoa
PullOrder == <<"99001", "99002">>
PullIDs == {PullOrder[i] : i \in 1..Len(PullOrder)}
\* pull.Head.SHA
HeadOrder == <<"abc123", "def456">>
Heads == {HeadOrder[i] : i \in 1..Len(HeadOrder)}
\* pull.Base.Ref
BaseRefs == {"master", "release"}
\* app.config.IgnoredBranches
IgnoredBranches == {"release"}

\* the empty build token, pullRequestStatus.currentBuild == ""
NoToken == 0
\* a missing key of g.trackedPullRequests
NoEntry == [absent |-> TRUE]
\* no pull request (a task that has no event yet)
NoPull == "none"

VARIABLES
  \* g.m, the sync.RWMutex: the task holding it for writing (0: none) and
  \* the tasks holding it for reading
  m,
  \* the process has died (fatal error: concurrent map access, or a panic)
  crashed,
  \* g.trackedPullRequests: pull id -> pullRequestStatus, or NoEntry
  trackedPullRequests,
  \* the build engine's builds, in submission order; a build's token is its
  \* index.  Each holds its group, its github:HeadHash metadata and the
  \* number of Stop() calls it received
  builds,
  \* app.config.CancelOnNewCommit, read-only after attach
  cancelOnNewCommit,
  \* the handler tasks: position, event, locals and the calls they made
  handlers,
  \* g.client: 0 is nil, n > 0 is the n-th client setClient built
  client,
  \* the cache entry "github:token" ("" when there is none)
  cache,
  \* g.globalConfig has both ClientID and ClientSecret
  haveCredentials,
  \* g.clientHasSet: the task holding its mutex L (0: none) and the tasks on
  \* its notify list
  clientHasSet,
  \* g.apps, by application name
  apps,
  \* the AttachToApp tasks
  attachers,
  \* the handleGithubAuth tasks
  callbacks,
  \* g.trackedBuilds: the build handles, each named by its token
  trackedBuilds,
  \* Ref() and Unref() calls the ledger made on each build handle
  refs,
  unrefs,
  \* trackBuild and untrackBuild calls made so far
  ledgerCalls

prVars == <<trackedPullRequests, builds, cancelOnNewCommit, handlers>>
oaVars == <<client, cache, haveCredentials, clientHasSet, apps, attachers, callbacks>>
ldVars == <<trackedBuilds, refs, unrefs, ledgerCalls>>
vars == <<m, crashed, prVars, oaVars, ldVars>>

(***************************************************************************)
(* The lock g.m.                                                            *)
(***************************************************************************)
NoLock == [writer |-> 0, readers |-> {}]
\* g.m.Lock() returns only when nobody holds the lock
CanLock == m.writer = 0 /\ m.readers = {}
\* g.m.RLock() returns only when no writer holds the lock
CanRLock == m.writer = 0
\* g.m.Unlock() / g.m.RUnlock() of whatever task t holds (deferred unlocks)
Released(t) ==
  [writer |-> IF m.writer = t THEN 0 ELSE m.writer, readers |-> m.readers \ {t}]

(***************************************************************************)
(* Pull-request tracker: data.                                              *)
(***************************************************************************)
\* pullRequestStatus{pull, currentBuild, mergeOnPass}
PullRequestStatus(pull, tok) ==
  [absent |-> FALSE, pull |-> pull, currentBuild |-> tok, mergeOnPass |-> FALSE]

\* the *github.PullRequest an entry points to: the event's, named by its
\* head commit (no handler reads an entry's pull)
PullOf(h) == h.head

IdleHandler ==
  [pc |-> "idle", kind |-> "none", pull |-> NoPull, head |-> "abc123",
   base |-> "master", ok |-> "none", collab |-> "none", status |-> NoEntry,
   tok |-> NoToken, calls |-> <<>>, wrote |-> FALSE, stored |-> FALSE]

\* one call to the build engine, as recorded in a handler's history
Call(op, tok, ok) == [op |-> op, tok |-> tok, ok |-> ok]

\* app.app.GetBuild(token): the possible outcomes (TRUE: a build came back).
\* No build has the empty token; the engine may have dropped any other.
GetBuildResults(tok) == IF tok = NoToken THEN {FALSE} ELSE {TRUE, FALSE}

\* the collaborator gate of trackPullRequest: err == nil and isCollaborator
CollaboratorPassesAny(res) == res # "err"
CollaboratorPassesUnlessNo(res) == res # "no"
CollaboratorPasses(res) == res = "yes"

\* the ignored-branch loop of trackPullRequest
IsIgnoredBranch(ref) == ref \in IgnoredBranches

\* build.Config().GetMetadata("github:HeadHash") == *pull.Head.SHA
AlreadyBuilt(tok, head) == builds[tok].head = head

\* buildConfig, as far as the engine keeps it: Group = pullID and the
\* metadata github:HeadHash = headCommit; a new build has not been stopped
BuildConfigOfNobody(h) == [group |-> NoPull, head |-> h.head, stops |-> 0]
BuildConfig(h) == [group |-> h.pull, head |-> h.head, stops |-> 0]

\* status.currentBuild = buildToken, in buildPullRequest's copy of the entry
StoredStatusWithoutToken(status, tok) == status
StoredStatus(status, tok) == [status EXCEPT !.currentBuild = tok]

\* if app.config.CancelOnNewCommit { build.Stop() }
CancelPriorNever == FALSE
CancelPriorAlways == TRUE
CancelPrior == cancelOnNewCommit

(***************************************************************************)
(* Pull-request tracker: the handlers' steps.                               *)
(***************************************************************************)
\* a handler returns as h: its deferred unlocks run and its locals are gone
Return(t, h) ==
  /\ handlers' = [handlers EXCEPT ![t] =
        [h EXCEPT !.pc = "done", !.status = NoEntry, !.tok = NoToken]]
  /\ m' = Released(t)

\* a webhook delivery is handed to a free task; tasks are taken in order
CanStart(t) ==
  /\ ~crashed
  /\ handlers[t].pc = "idle"
  /\ \A u \in Tasks : u < t => handlers[u].pc # "idle"

\* Pull ids and commit hashes are opaque to the handlers, which only compare
\* them: behaviours that differ by a renaming of them are the same behaviour.
\* A delivery names the ids already seen, or the first of those never seen.
Fresh(order, used) ==
  LET unseen == {i \in 1..Len(order) : order[i] \notin used}
  IN IF unseen = {} THEN {}
     ELSE {order[CHOOSE i \in unseen : \A j \in unseen : i <= j]}
UsedPulls == {handlers[t].pull : t \in Tasks} \ {NoPull}
UsedHeads == {handlers[t].head : t \in {u \in Tasks : handlers[u].kind \in {"opened", "synchronize"}
                                                      /\ handlers[u].pull # NoPull}}
EventPulls == UsedPulls \cup Fresh(PullOrder, UsedPulls)
EventHeads == UsedHeads \cup Fresh(HeadOrder, UsedHeads)

\* action "opened" with a nil PullRequest: trackPullRequest returns at once
TrackNilPullRequest(t) ==
  /\ CanStart(t)
  /\ handlers' = [handlers EXCEPT ![t] =
        [IdleHandler EXCEPT !.pc = "done", !.kind = "opened"]]
  /\ UNCHANGED <<m, crashed, trackedPullRequests, builds, cancelOnNewCommit>>
  /\ UNCHANGED <<oaVars, ldVars>>

\* action "opened": trackPullRequest is entered
StartTrackPullRequest(t) ==
  /\ CanStart(t)
  /\ \E p \in EventPulls, hd \in EventHeads, bs \in BaseRefs :
       handlers' = [handlers EXCEPT ![t] =
          [IdleHandler EXCEPT !.pc = "t_collab", !.kind = "opened",
                              !.pull = p, !.head = hd, !.base = bs]]
  /\ UNCHANGED <<m, crashed, trackedPullRequests, builds, cancelOnNewCommit>>
  /\ UNCHANGED <<oaVars, ldVars>>

\* action "synchronize": updatePullRequest is entered
StartUpdatePullRequest(t) ==
  /\ CanStart(t)
  /\ \E p \in EventPulls, hd \in EventHeads, bs \in BaseRefs :
       handlers' = [handlers EXCEPT ![t] =
          [IdleHandler EXCEPT !.pc = "u_look", !.kind = "synchronize",
                              !.pull = p, !.head = hd, !.base = bs]]
  /\ UNCHANGED <<m, crashed, trackedPullRequests, builds, cancelOnNewCommit>>
  /\ UNCHANGED <<oaVars, ldVars>>

\* action "closed": closedPullRequest is entered
StartClosedPullRequest(t) ==
  /\ CanStart(t)
  /\ \E p \in EventPulls :
       handlers' = [handlers EXCEPT ![t] =
          [IdleHandler EXCEPT !.pc = "c_rlock", !.kind = "closed", !.pull = p]]
  /\ UNCHANGED <<m, crashed, trackedPullRequests, builds, cancelOnNewCommit>>
  /\ UNCHANGED <<oaVars, ldVars>>

\* trackPullRequest, the collaborator check (no lock held)
TrackCollaborator(t) ==
  /\ ~crashed
  /\ handlers[t].pc = "t_collab"
  /\ \E res \in {"yes", "no", "err"} :
       LET h == [handlers[t] EXCEPT !.collab = res]
       IN IF CollaboratorPasses(res)
            THEN /\ handlers' = [handlers EXCEPT ![t] = [h EXCEPT !.pc = "t_lock"]]
                 /\ UNCHANGED m
            ELSE Return(t, h)
  /\ UNCHANGED <<crashed, trackedPullRequests, builds, cancelOnNewCommit>>
  /\ UNCHANGED <<oaVars, ldVars>>

\* trackPullRequest: g.m.Lock(), then the ignored-branch loop; an ignored
\* branch returns (and unlocks) at once
TrackLock(t) ==
  /\ ~crashed
  /\ handlers[t].pc = "t_lock"
  /\ CanLock
  /\ IF IsIgnoredBranch(handlers[t].base)
       THEN Return(t, handlers[t])
       ELSE /\ m' = [m EXCEPT !.writer = t]
            /\ handlers' = [handlers EXCEPT ![t].pc = "t_put"]
  /\ UNCHANGED <<crashed, trackedPullRequests, builds, cancelOnNewCommit>>
  /\ UNCHANGED <<oaVars, ldVars>>

\* trackPullRequest: g.trackedPullRequests[pullID] = pullRequestStatus{pull: pull}
TrackPut(t) ==
  /\ ~crashed
  /\ handlers[t].pc = "t_put"
  /\ trackedPullRequests' = [trackedPullRequests EXCEPT
        ![handlers[t].pull] = PullRequestStatus(PullOf(handlers[t]), NoToken)]
  /\ handlers' = [handlers EXCEPT ![t].pc = "b_read", ![t].wrote = TRUE]
  /\ UNCHANGED <<m, crashed, builds, cancelOnNewCommit>>
  /\ UNCHANGED <<oaVars, ldVars>>

\* updatePullRequest that builds whether or not the pull request is tracked
UpdateLookBypass(t) ==
  /\ ~crashed
  /\ handlers[t].pc = "u_look"
  /\ CanRLock
  /\ LET ok == ~trackedPullRequests[handlers[t].pull].absent
     IN handlers' = [handlers EXCEPT ![t].pc = "b_read",
                                     ![t].ok = IF ok THEN "true" ELSE "false"]
  /\ UNCHANGED <<m, crashed, trackedPullRequests, builds, cancelOnNewCommit>>
  /\ UNCHANGED <<oaVars, ldVars>>

\* updatePullRequest: the lookup under the read lock; an unknown pull
\* request goes to trackPullRequest, a known one to buildPullRequest
UpdateLook(t) ==
  /\ ~crashed
  /\ handlers[t].pc = "u_look"
  /\ CanRLock
  /\ LET ok == ~trackedPullRequests[handlers[t].pull].absent
     IN handlers' = [handlers EXCEPT ![t].pc = IF ok THEN "b_read" ELSE "t_collab",
                                     ![t].ok = IF ok THEN "true" ELSE "false"]
  /\ UNCHANGED <<m, crashed, trackedPullRequests, builds, cancelOnNewCommit>>
  /\ UNCHANGED <<oaVars, ldVars>>

\* buildPullRequest: status, ok := g.trackedPullRequests[pullID], and the
\* entry it creates when there is none
BuildRead(t) ==
  /\ ~crashed
  /\ handlers[t].pc = "b_read"
  /\ LET h == handlers[t]
         cur == trackedPullRequests[h.pull]
         status == IF cur.absent THEN PullRequestStatus(PullOf(h), NoToken)
                   ELSE cur
     IN /\ trackedPullRequests' = [trackedPullRequests EXCEPT ![h.pull] = status]
        /\ handlers' = [handlers EXCEPT ![t] =
              [h EXCEPT !.pc = "b_submit", !.status = status,
                        !.wrote = h.wrote \/ cur.absent]]
  /\ UNCHANGED <<m, crashed, builds, cancelOnNewCommit>>
  /\ UNCHANGED <<oaVars, ldVars>>

\* buildPullRequest: the lookup of the current build, the duplicate check,
\* the stop of the build a new commit supersedes, and
\* app.app.NewBuild(buildConfig.Group, buildConfig).  These are calls to the
\* build engine only; no other task's step depends on when they happen, so
\* they make one step.
BuildSubmit(t) ==
  /\ ~crashed
  /\ handlers[t].pc = "b_submit"
  /\ LET h == handlers[t]
         cur == h.status.currentBuild
         tok == Len(builds) + 1
     IN \E found \in GetBuildResults(cur), submitted \in BOOLEAN :
          LET looked == IF cur = NoToken THEN h.calls
                        ELSE Append(h.calls, Call("lookup", cur, found))
              stop == found /\ CancelPrior
              stopped == IF stop THEN Append(looked, Call("stop", cur, TRUE))
                         ELSE looked
              engine == IF stop THEN [builds EXCEPT ![cur].stops = @ + 1]
                        ELSE builds
          IN IF found /\ AlreadyBuilt(cur, h.head)
               THEN /\ Return(t, [h EXCEPT !.calls = looked])
                    /\ UNCHANGED builds
               ELSE IF submitted
                 THEN /\ builds' = Append(engine, BuildConfig(h))
                      /\ handlers' = [handlers EXCEPT ![t] =
                            [h EXCEPT !.pc = "b_store", !.tok = tok,
                                      !.calls = Append(stopped, Call("submit", tok, TRUE))]]
                      /\ UNCHANGED m
                 ELSE /\ builds' = engine
                      /\ Return(t, [h EXCEPT !.calls =
                                      Append(stopped, Call("submit", NoToken, FALSE))])
  /\ UNCHANGED <<crashed, trackedPullRequests, cancelOnNewCommit>>
  /\ UNCHANGED <<oaVars, ldVars>>

\* buildPullRequest: the lookup of the new build, and the store of its
\* token in the entry
BuildStore(t) ==
  /\ ~crashed
  /\ handlers[t].pc = "b_store"
  /\ LET h == handlers[t]
     IN \E found \in GetBuildResults(h.tok) :
          LET looked == Append(h.calls, Call("lookup", h.tok, found))
              map == IF found
                       THEN [trackedPullRequests EXCEPT
                               ![h.pull] = StoredStatus(h.status, h.tok)]
                       ELSE trackedPullRequests
          IN /\ trackedPullRequests' = map
             /\ Return(t, [h EXCEPT !.calls = looked, !.stored = found,
                                    !.wrote = h.wrote \/ found])
  /\ UNCHANGED <<crashed, builds, cancelOnNewCommit>>
  /\ UNCHANGED <<oaVars, ldVars>>

\* closedPullRequest: g.m.RLock() and the lookup; an unknown pull request
\* returns at once
ClosedLock(t) ==
  /\ ~crashed
  /\ handlers[t].pc = "c_rlock"
  /\ CanRLock
  /\ LET h == handlers[t]
         cur == trackedPullRequests[h.pull]
     IN IF cur.absent
          THEN Return(t, h)
          ELSE /\ m' = [m EXCEPT !.readers = @ \cup {t}]
               /\ handlers' = [handlers EXCEPT ![t] =
                     [h EXCEPT !.pc = "c_stop", !.status = cur]]
  /\ UNCHANGED <<crashed, trackedPullRequests, builds, cancelOnNewCommit>>
  /\ UNCHANGED <<oaVars, ldVars>>

\* closedPullRequest: the lookup of the current build and its stop
ClosedStop(t) ==
  /\ ~crashed
  /\ handlers[t].pc = "c_stop"
  /\ LET h == handlers[t]
         cur == h.status.currentBuild
     IN \E found \in GetBuildResults(cur) :
          LET looked == IF cur = NoToken THEN h.calls
                        ELSE Append(h.calls, Call("lookup", cur, found))
          IN IF found /\ CancelPrior
               THEN /\ builds' = [builds EXCEPT ![cur].stops = @ + 1]
                    /\ handlers' = [handlers EXCEPT ![t] =
                          [h EXCEPT !.pc = "c_delete",
                                    !.calls = Append(looked, Call("stop", cur, TRUE))]]
               ELSE /\ handlers' = [handlers EXCEPT ![t] =
                          [h EXCEPT !.pc = "c_delete", !.calls = looked]]
                    /\ UNCHANGED builds
  /\ UNCHANGED <<m, crashed, trackedPullRequests, cancelOnNewCommit>>
  /\ UNCHANGED <<oaVars, ldVars>>

\* closedPullRequest: delete(g.trackedPullRequests, pullID), and the return
ClosedDelete(t) ==
  /\ ~crashed
  /\ handlers[t].pc = "c_delete"
  /\ LET h == handlers[t]
         map == [trackedPullRequests EXCEPT ![h.pull] = NoEntry]
     IN /\ trackedPullRequests' = map
        /\ Return(t, [h EXCEPT !.wrote = TRUE])
  /\ UNCHANGED <<crashed, builds, cancelOnNewCommit>>
  /\ UNCHANGED <<oaVars, ldVars>>

(***************************************************************************)
(* Unsynchronised accesses of the map.  A Go map is not safe for concurrent *)
(* use: two accesses, one of them a write, that no lock orders are a data   *)
(* race, and the runtime may end the process ("fatal error: concurrent map  *)
(* read and map write").  The other outcome, the two accesses taking effect *)
(* in one order or the other, is the interleaving of the steps above.       *)
(***************************************************************************)
\* the access of the map the next step of t makes: "w", "r" or "none"
MapAccess(t) ==
  LET pc == handlers[t].pc
  IN IF pc \in {"t_put", "b_store", "c_delete"} THEN "w"
     ELSE IF pc = "b_read"
       THEN (IF trackedPullRequests[handlers[t].pull].absent THEN "w" ELSE "r")
     ELSE IF pc = "u_look" THEN "r"
     ELSE IF pc = "c_rlock" THEN "r"
     ELSE "none"

\* whether the lock lets the next step of t run now
CanStep(t) ==
  LET pc == handlers[t].pc
  IN IF pc = "u_look" THEN CanRLock
     ELSE IF pc = "c_rlock" THEN CanRLock
     ELSE IF pc = "t_lock" THEN CanLock
     ELSE TRUE

\* two tasks are about to access the map at once, one of them writing
Racing(a, b) ==
  /\ a # b
  /\ MapAccess(a) = "w"
  /\ MapAccess(b) # "none"
  /\ CanStep(a)
  /\ CanStep(b)

MapRace ==
  /\ ~crashed
  /\ \E a, b \in Tasks : Racing(a, b)
  /\ crashed' = TRUE
  /\ UNCHANGED <<m, prVars>>
  /\ UNCHANGED <<oaVars, ldVars>>

(***************************************************************************)
(* OAuth session: handleGithubAuth, setClient, acquireOauthToken, init and  *)
(* AttachToApp.                                                             *)
(***************************************************************************)
AttachTasks == 1..MaxAttach
CallbackTasks == 1..MaxCallbacks

\* var oauth2State: the nonce of this process
oauth2State == "uid-pid-time"
\* the state parameters a callback request may carry
CallbackStates == {oauth2State, "forged"}

\* an AttachToApp task holds g.m and clientHasSet.L under this name
AttachId(a) == 0 - a

IdleAttacher ==
  [pc |-> "idle", publicKey |-> FALSE, key |-> "none", hook |-> "none",
   listening |-> FALSE]
IdleCallback == [pc |-> "idle", state |-> "", did |-> {}]

\* handleGithubAuth: state != oauth2State rejects the request
StateAcceptedAlways(state) == TRUE
StateAccepted(state) == state = oauth2State

\* setClient: g.client = github.NewClient(tc), a client never seen before
NewClient == client + 1

\* AttachToApp is called for an application
StartAttachToApp(a) ==
  /\ ~crashed
  /\ attachers[a].pc = "idle"
  /\ \A u \in AttachTasks : u < a => attachers[u].pc # "idle"
  /\ attachers' = [attachers EXCEPT ![a].pc = "a_lock"]
  /\ UNCHANGED <<m, crashed, client, cache, haveCredentials, clientHasSet, apps,
                 callbacks>>
  /\ UNCHANGED <<prVars, ldVars>>

\* AttachToApp: g.m.Lock()
AttachLock(a) ==
  /\ ~crashed
  /\ attachers[a].pc = "a_lock"
  /\ CanLock
  /\ m' = [m EXCEPT !.writer = AttachId(a)]
  /\ attachers' = [attachers EXCEPT ![a].pc = "i_enter"]
  /\ UNCHANGED <<crashed, client, cache, haveCredentials, clientHasSet, apps,
                 callbacks>>
  /\ UNCHANGED <<prVars, ldVars>>

\* init: if g.client == nil, and the check of ClientID and ClientSecret
InitEnter(a) ==
  /\ ~crashed
  /\ attachers[a].pc = "i_enter"
  /\ attachers' = [attachers EXCEPT ![a].pc =
        IF client = 0 /\ haveCredentials THEN "i_acquire" ELSE "a_config"]
  /\ UNCHANGED <<m, crashed, client, cache, haveCredentials, clientHasSet, apps,
                 callbacks>>
  /\ UNCHANGED <<prVars, ldVars>>

\* init: g.clientHasSet.L.Lock() and acquireOauthToken(), which installs a
\* client (setClient: the store of g.client, then Broadcast) from a cached
\* token and prints the authorization URL otherwise
AcquireOauthToken(a) ==
  /\ ~crashed
  /\ attachers[a].pc = "i_acquire"
  /\ clientHasSet.L = 0
  /\ IF cache # ""
       THEN /\ client' = NewClient
            /\ clientHasSet' = [L |-> AttachId(a), notify |-> {}]
       ELSE /\ clientHasSet' = [clientHasSet EXCEPT !.L = AttachId(a)]
            /\ UNCHANGED client
  /\ attachers' = [attachers EXCEPT ![a].pc = "i_check"]
  /\ UNCHANGED <<m, crashed, cache, haveCredentials, apps, callbacks>>
  /\ UNCHANGED <<prVars, ldVars>>

\* init: the test of the loop, for g.client == nil
InitCheck(a) ==
  /\ ~crashed
  /\ attachers[a].pc = "i_check"
  /\ attachers' = [attachers EXCEPT ![a].pc =
        IF client = 0 THEN "i_wait" ELSE "i_list"]
  /\ UNCHANGED <<m, crashed, client, cache, haveCredentials, clientHasSet, apps,
                 callbacks>>
  /\ UNCHANGED <<prVars, ldVars>>

\* init: g.clientHasSet.Wait() puts the task on the notify list and unlocks L
InitWait(a) ==
  /\ ~crashed
  /\ attachers[a].pc = "i_wait"
  /\ clientHasSet' = [L |-> 0, notify |-> clientHasSet.notify \cup {a}]
  /\ attachers' = [attachers EXCEPT ![a].pc = "i_blocked"]
  /\ UNCHANGED <<m, crashed, client, cache, haveCredentials, apps, callbacks>>
  /\ UNCHANGED <<prVars, ldVars>>

\* init: Wait() returns once a Broadcast took the task off the notify list
\* and L is locked again
InitWake(a) ==
  /\ ~crashed
  /\ attachers[a].pc = "i_blocked"
  /\ a \notin clientHasSet.notify
  /\ clientHasSet.L = 0
  /\ clientHasSet' = [clientHasSet EXCEPT !.L = AttachId(a)]
  /\ attachers' = [attachers EXCEPT ![a].pc = "i_check"]
  /\ UNCHANGED <<m, crashed, client, cache, haveCredentials, apps, callbacks>>
  /\ UNCHANGED <<prVars, ldVars>>

\* init: g.client.Repositories.List, whose failure is only logged, and
\* g.clientHasSet.L.Unlock()
InitList(a) ==
  /\ ~crashed
  /\ attachers[a].pc = "i_list"
  /\ clientHasSet' = [clientHasSet EXCEPT !.L = 0]
  /\ attachers' = [attachers EXCEPT ![a].pc = "a_config"]
  /\ UNCHANGED <<m, crashed, client, cache, haveCredentials, apps, callbacks>>
  /\ UNCHANGED <<prVars, ldVars>>

\* AttachToApp: app.Config("github", &appConfig.config), which may or may
\* not hold a public key, and g.apps[app.Name()] = appConfig
AttachConfig(a) ==
  /\ ~crashed
  /\ attachers[a].pc = "a_config"
  /\ apps' = apps \cup {a}
  /\ \E pk \in BOOLEAN :
       attachers' = [attachers EXCEPT ![a].pc = "a_key", ![a].publicKey = pk]
  /\ UNCHANGED <<m, crashed, client, cache, haveCredentials, clientHasSet,
                 callbacks>>
  /\ UNCHANGED <<prVars, ldVars>>

\* setupDeployKey: no public key is an error; otherwise CreateKey through
\* g.client, which panics when g.client is nil.  AttachToApp drops the error
\* setupDeployKey returns.
SetupDeployKey(a) ==
  /\ ~crashed
  /\ attachers[a].pc = "a_key"
  /\ IF ~attachers[a].publicKey
       THEN /\ attachers' = [attachers EXCEPT ![a].pc = "a_hooks", ![a].key = "nokey"]
            /\ UNCHANGED <<m, crashed>>
       ELSE IF client = 0
         THEN /\ crashed' = TRUE
              /\ m' = Released(AttachId(a))
              /\ attachers' = [attachers EXCEPT ![a].pc = "done"]
         ELSE /\ \E res \in {"ok", "inuse", "err"} :
                   attachers' = [attachers EXCEPT ![a].pc = "a_hooks", ![a].key = res]
              /\ UNCHANGED <<m, crashed>>
  /\ UNCHANGED <<client, cache, haveCredentials, clientHasSet, apps, callbacks>>
  /\ UNCHANGED <<prVars, ldVars>>

\* setupHooks: Repositories.Get and, when the repository exists, CreateHook
\* through g.client, which panics when g.client is nil; a hook that exists
\* already and any other failure of CreateHook are only logged
SetupHooks(a) ==
  /\ ~crashed
  /\ attachers[a].pc = "a_hooks"
  /\ IF client = 0
       THEN /\ crashed' = TRUE
            /\ m' = Released(AttachId(a))
            /\ attachers' = [attachers EXCEPT ![a].pc = "done"]
       ELSE /\ \E res \in {"norepo", "requested"} :
                 attachers' = [attachers EXCEPT ![a].pc = "a_listen", ![a].hook = res]
            /\ UNCHANGED <<m, crashed>>
  /\ UNCHANGED <<client, cache, haveCredentials, clientHasSet, apps, callbacks>>
  /\ UNCHANGED <<prVars, ldVars>>

\* AttachToApp: the two app.Listen calls, and the return (g.m.Unlock())
AttachListen(a) ==
  /\ ~crashed
  /\ attachers[a].pc = "a_listen"
  /\ attachers' = [attachers EXCEPT ![a].pc = "done", ![a].listening = TRUE]
  /\ m' = Released(AttachId(a))
  /\ UNCHANGED <<crashed, client, cache, haveCredentials, clientHasSet, apps,
                 callbacks>>
  /\ UNCHANGED <<prVars, ldVars>>

\* a request arrives at /cb/auth/github
StartHandleGithubAuth(c) ==
  /\ ~crashed
  /\ callbacks[c].pc = "idle"
  /\ \A u \in CallbackTasks : u < c => callbacks[u].pc # "idle"
  /\ \E st \in CallbackStates :
       callbacks' = [callbacks EXCEPT ![c] = [IdleCallback EXCEPT !.pc = "h_state",
                                                                  !.state = st]]
  /\ UNCHANGED <<m, crashed, client, cache, haveCredentials, clientHasSet, apps,
                 attachers>>
  /\ UNCHANGED <<prVars, ldVars>>

\* handleGithubAuth: the check of the state parameter and cfg.Exchange
HandleGithubAuth(c) ==
  /\ ~crashed
  /\ callbacks[c].pc = "h_state"
  /\ IF ~StateAccepted(callbacks[c].state)
       THEN callbacks' = [callbacks EXCEPT ![c].pc = "done"]
       ELSE \E exchanged \in BOOLEAN :
              callbacks' = [callbacks EXCEPT
                 ![c].pc = IF exchanged THEN "h_store" ELSE "done",
                 ![c].did = @ \cup {"exchange"}]
  /\ UNCHANGED <<m, crashed, client, cache, haveCredentials, clientHasSet, apps,
                 attachers>>
  /\ UNCHANGED <<prVars, ldVars>>

\* handleGithubAuth: core.StoreCache("github:token", token.AccessToken)
StoreCache(c) ==
  /\ ~crashed
  /\ callbacks[c].pc = "h_store"
  /\ cache' = "granted"
  /\ callbacks' = [callbacks EXCEPT ![c].pc = "h_client", ![c].did = @ \cup {"store"}]
  /\ UNCHANGED <<m, crashed, client, haveCredentials, clientHasSet, apps, attachers>>
  /\ UNCHANGED <<prVars, ldVars>>

\* setClient: g.client = github.NewClient(tc); no lock is held
SetClient(c) ==
  /\ ~crashed
  /\ callbacks[c].pc = "h_client"
  /\ client' = NewClient
  /\ callbacks' = [callbacks EXCEPT ![c].pc = "h_broadcast",
                                    ![c].did = @ \cup {"install"}]
  /\ UNCHANGED <<m, crashed, cache, haveCredentials, clientHasSet, apps, attachers>>
  /\ UNCHANGED <<prVars, ldVars>>

\* setClient: g.clientHasSet.Broadcast() empties the notify list
Broadcast(c) ==
  /\ ~crashed
  /\ callbacks[c].pc = "h_broadcast"
  /\ clientHasSet' = [clientHasSet EXCEPT !.notify = {}]
  /\ callbacks' = [callbacks EXCEPT ![c].pc = "done", ![c].did = @ \cup {"broadcast"}]
  /\ UNCHANGED <<m, crashed, client, cache, haveCredentials, apps, attachers>>
  /\ UNCHANGED <<prVars, ldVars>>

(***************************************************************************)
(* Build ledger: trackBuild and untrackBuild.                               *)
(***************************************************************************)
\* the build handles; build.Token() names the handle
Builds == 1..MaxBuilds

\* the position of the tracked build with the token of b, 0 when there is none
IndexOf(b) ==
  IF \E i \in DOMAIN trackedBuilds : trackedBuilds[i] = b
    THEN CHOOSE i \in DOMAIN trackedBuilds :
           /\ trackedBuilds[i] = b
           /\ \A j \in DOMAIN trackedBuilds : trackedBuilds[j] = b => i <= j
    ELSE 0

\* trackBuild: the loop that returns when the token is already tracked
AlreadyTrackedNever(b) == FALSE
AlreadyTracked(b) == IndexOf(b) # 0

\* append(s[:i], s[i+1:]...)
RemoveAt(s, i) == SubSeq(s, 1, i - 1) \o SubSeq(s, i + 1, Len(s))

TrackBuild(b) ==
  /\ ledgerCalls < MaxLedgerCalls
  /\ ledgerCalls' = ledgerCalls + 1
  /\ IF AlreadyTracked(b)
       THEN UNCHANGED <<trackedBuilds, refs>>
       ELSE /\ refs' = [refs EXCEPT ![b] = @ + 1]
            /\ trackedBuilds' = Append(trackedBuilds, b)
  /\ UNCHANGED <<m, crashed, unrefs>>
  /\ UNCHANGED <<prVars, oaVars>>

UntrackBuild(b) ==
  /\ ledgerCalls < MaxLedgerCalls
  /\ ledgerCalls' = ledgerCalls + 1
  /\ LET buildIndex == IndexOf(b)
     IN IF buildIndex = 0
          THEN UNCHANGED <<trackedBuilds, unrefs>>
          ELSE /\ unrefs' = [unrefs EXCEPT ![trackedBuilds[buildIndex]] = @ + 1]
               /\ trackedBuilds' = RemoveAt(trackedBuilds, buildIndex)
  /\ UNCHANGED <<m, crashed, refs>>
  /\ UNCHANGED <<prVars, oaVars>>

(***************************************************************************)
(* The specifications: the state after New(), and the steps of the tracker, *)
(* of the OAuth session and of the ledger.                                  *)
(***************************************************************************)
Init ==
  /\ m = NoLock
  /\ crashed = FALSE
  /\ trackedPullRequests = [p \in PullIDs |-> NoEntry]
  /\ builds = <<>>
  /\ cancelOnNewCommit \in BOOLEAN
  /\ handlers = [t \in Tasks |-> IdleHandler]
  /\ client = 0
  /\ cache = ""
  /\ haveCredentials = TRUE
  /\ clientHasSet = [L |-> 0, notify |-> {}]
  /\ apps = {}
  /\ attachers = [a \in AttachTasks |-> IdleAttacher]
  /\ callbacks = [c \in CallbackTasks |-> IdleCallback]
  /\ trackedBuilds = <<>>
  /\ refs = [b \in Builds |-> 0]
  /\ unrefs = [b \in Builds |-> 0]
  /\ ledgerCalls = 0

Next ==
  \/ MapRace
  \/ \E t \in Tasks :
       \/ TrackNilPullRequest(t)
       \/ StartTrackPullRequest(t)
       \/ StartUpdatePullRequest(t)
       \/ StartClosedPullRequest(t)
       \/ TrackCollaborator(t)
       \/ TrackLock(t)
       \/ TrackPut(t)
       \/ UpdateLook(t)
       \/ BuildRead(t)
       \/ BuildSubmit(t)
       \/ BuildStore(t)
       \/ ClosedLock(t)
       \/ ClosedStop(t)
       \/ ClosedDelete(t)

\* the tracker: webhook deliveries, handled concurrently
Spec == Init /\ [][Next]_vars

\* the process starts with or without a cached token and with or without
\* OAuth credentials in its configuration
OAuthInit ==
  /\ m = NoLock
  /\ crashed = FALSE
  /\ trackedPullRequests = [p \in PullIDs |-> NoEntry]
  /\ builds = <<>>
  /\ cancelOnNewCommit = FALSE
  /\ handlers = [t \in Tasks |-> IdleHandler]
  /\ client = 0
  /\ cache \in {"", "persisted"}
  /\ haveCredentials \in BOOLEAN
  /\ clientHasSet = [L |-> 0, notify |-> {}]
  /\ apps = {}
  /\ attachers = [a \in AttachTasks |-> IdleAttacher]
  /\ callbacks = [c \in CallbackTasks |-> IdleCallback]
  /\ trackedBuilds = <<>>
  /\ refs = [b \in Builds |-> 0]
  /\ unrefs = [b \in Builds |-> 0]
  /\ ledgerCalls = 0

\* the steps of an AttachToApp task, once called
AttachStep(a) ==
  \/ AttachLock(a)
  \/ InitEnter(a)
  \/ AcquireOauthToken(a)
  \/ InitCheck(a)
  \/ InitWait(a)
  \/ InitWake(a)
  \/ InitList(a)
  \/ AttachConfig(a)
  \/ SetupDeployKey(a)
  \/ SetupHooks(a)
  \/ AttachListen(a)

\* the steps of a handleGithubAuth task, once requested
CallbackStep(c) ==
  \/ HandleGithubAuth(c)
  \/ StoreCache(c)
  \/ SetClient(c)
  \/ Broadcast(c)

OAuthNext ==
  \/ \E a \in AttachTasks : StartAttachToApp(a) \/ AttachStep(a)
  \/ \E c \in CallbackTasks : StartHandleGithubAuth(c) \/ CallbackStep(c)

\* the OAuth session: AttachToApp calls and callbacks, handled concurrently
OAuthSpec == OAuthInit /\ [][OAuthNext]_vars

\* the same, with the Go scheduler's guarantee that a task that can run
\* does run; when AttachToApp is called and when a callback request arrives
\* is up to the environment
OAuthFairSpec ==
  /\ OAuthSpec
  /\ \A a \in AttachTasks : WF_vars(AttachStep(a))
  /\ \A c \in CallbackTasks : WF_vars(CallbackStep(c))

LedgerNext == \E b \in Builds : TrackBuild(b) \/ UntrackBuild(b)

\* the ledger: any sequence of trackBuild and untrackBuild calls
LedgerInit == Init /\ cancelOnNewCommit = FALSE
LedgerSpec == LedgerInit /\ [][LedgerNext]_vars

(***************************************************************************)
(* The claims about the pull-request tracker.                               *)
(***************************************************************************)
\* the engine calls of one kind in a handler's history, by position
CallsOf(t, op) == {i \in DOMAIN handlers[t].calls : handlers[t].calls[i].op = op}
\* the task has handled an event (a real one: a pull request came with it)
Handled(t) == handlers[t].pc = "done" /\ handlers[t].pull # NoPull
\* some call of the handler to the engine failed
SomeCallFailed(t) == \E i \in DOMAIN handlers[t].calls : ~handlers[t].calls[i].ok

\* C1: a pull request whose author no collaborator query ever reported as a
\* collaborator is never submitted to the build engine (no submit call, no
\* build of its group) and never has an entry in the tracking map, whatever
\* events arrive for it and however their handlers interleave.
C1_NonCollaboratorNeverBuilt ==
  \A p \in PullIDs :
    (\A t \in Tasks : handlers[t].pull = p => handlers[t].collab # "yes")
      => /\ trackedPullRequests[p].absent
         /\ \A t \in Tasks : handlers[t].pull = p => CallsOf(t, "submit") = {}
         /\ \A b \in DOMAIN builds : builds[b].group # p

\* C1's case: an opened and a synchronize event of one pull request were
\* both handled and both were told the author is no collaborator.
C1_Witness ==
  \E a, b \in Tasks :
    /\ Handled(a) /\ Handled(b)
    /\ handlers[a].pull = handlers[b].pull
    /\ handlers[a].kind = "opened" /\ handlers[a].collab = "no"
    /\ handlers[b].kind = "synchronize" /\ handlers[b].collab = "no"

\* C2: a handler of an opened or synchronize event whose base branch is in
\* the ignored-branch list creates no entry, mutates no entry and makes no
\* submit call, also when the pull request is already tracked.
C2_IgnoredBranchUntouched ==
  \A t \in Tasks :
    (/\ handlers[t].kind \in {"opened", "synchronize"}
     /\ handlers[t].pull # NoPull
     /\ handlers[t].base \in IgnoredBranches)
      => ~handlers[t].wrote /\ CallsOf(t, "submit") = {}

\* C3: two synchronize events of one pull request with the same head commit,
\* and no other event of that pull request, yield exactly one submit call
\* once both are handled, when the collaborator check passed wherever it was
\* made, the branch is not ignored and no engine call failed.
C3_SameHeadOneSubmission ==
  \A a, b \in Tasks :
    (/\ a # b
     /\ Handled(a) /\ Handled(b)
     /\ handlers[a].kind = "synchronize" /\ handlers[b].kind = "synchronize"
     /\ handlers[a].pull = handlers[b].pull
     /\ handlers[a].head = handlers[b].head
     /\ handlers[a].base \notin IgnoredBranches
     /\ handlers[b].base \notin IgnoredBranches
     /\ handlers[a].collab \in {"none", "yes"}
     /\ handlers[b].collab \in {"none", "yes"}
     /\ ~SomeCallFailed(a) /\ ~SomeCallFailed(b)
     /\ \A c \in Tasks \ {a, b} : handlers[c].pull # handlers[a].pull)
      => Cardinality(CallsOf(a, "submit")) + Cardinality(CallsOf(b, "submit")) = 1

\* the handler of a synchronize event found the entry of its pull request
\* holding the token of a live build of another head commit
Superseding(t) ==
  /\ handlers[t].kind = "synchronize"
  /\ Len(handlers[t].calls) >= 1
  /\ handlers[t].calls[1].op = "lookup"
  /\ handlers[t].calls[1].ok
  /\ builds[handlers[t].calls[1].tok].head # handlers[t].head

\* the engine calls of a handler after its first lookup
AfterLookup(t) == Tail(handlers[t].calls)
\* the handler's submit call returned a token and the lookup of it succeeded
SubmittedAndFound(t) ==
  LET c == handlers[t].calls
  IN /\ Len(c) >= 2
     /\ c[Len(c) - 1].op = "submit" /\ c[Len(c) - 1].ok
     /\ c[Len(c)].op = "lookup" /\ c[Len(c)].ok /\ c[Len(c)].tok = c[Len(c) - 1].tok
\* the token the handler's submit call returned
SubmittedToken(t) ==
  LET c == handlers[t].calls
  IN c[CHOOSE i \in CallsOf(t, "submit") : TRUE].tok
\* the handler made exactly one stop call, on the build it found, and
\* exactly one submit call, after the stop
StopThenSubmit(t) ==
  LET c == AfterLookup(t)
  IN /\ Len(c) >= 2
     /\ c[1].op = "stop" /\ c[1].tok = handlers[t].calls[1].tok
     /\ c[2].op = "submit"
     /\ CallsOf(t, "stop") = {2}
     /\ CallsOf(t, "submit") = {3}
\* the handler made no stop call and exactly one submit call
SubmitOnly(t) ==
  /\ CallsOf(t, "stop") = {}
  /\ CallsOf(t, "submit") = {2}

\* the step in which handler t returns
Returns(t) == handlers[t].pc # "done" /\ handlers'[t].pc = "done"
\* the entry, as the returning handler leaves it: the returned token when
\* submit and the lookup of the token succeeded, untouched otherwise
EntryAtReturn(t) ==
  IF SubmittedAndFound(t)'
    THEN /\ ~trackedPullRequests'[handlers[t].pull].absent
         /\ trackedPullRequests'[handlers[t].pull].currentBuild = SubmittedToken(t)'
    ELSE trackedPullRequests' = trackedPullRequests

\* C4 as stated: with cancel-on-new-commit, a superseding synchronize stops
\* the old build exactly once, before its one submit, and the entry then
\* holds the newly returned token.
C4_Original ==
  \A t \in Tasks :
    (Handled(t) /\ Superseding(t) /\ cancelOnNewCommit)
      => StopThenSubmit(t) /\ SubmittedAndFound(t) /\ handlers[t].stored

\* C4, amended: with cancel-on-new-commit, a superseding synchronize stops
\* the old build exactly once, before its one submit call; when it returns
\* the entry holds the newly returned token if submit and the lookup of that
\* token both succeeded, and is left as it was otherwise.
C4_StopThenSubmit ==
  [][\A t \in Tasks :
       (Returns(t) /\ Superseding(t)' /\ cancelOnNewCommit)
         => StopThenSubmit(t)' /\ EntryAtReturn(t)]_vars

\* C4's case: a superseding synchronize under cancel-on-new-commit has been
\* handled, its submit and lookup succeeded, and the entry holds the token.
C4_Witness ==
  \E t \in Tasks :
    /\ Handled(t) /\ Superseding(t) /\ cancelOnNewCommit
    /\ SubmittedAndFound(t)
    /\ builds[handlers[t].calls[1].tok].stops = 1
    /\ trackedPullRequests[handlers[t].pull].currentBuild = SubmittedToken(t)

\* C5 as stated: without cancel-on-new-commit, a superseding synchronize
\* never stops the old build, and submits exactly one new build whose token
\* replaces the old one in the entry.
C5_Original ==
  \A t \in Tasks :
    (Handled(t) /\ Superseding(t) /\ ~cancelOnNewCommit)
      => SubmitOnly(t) /\ SubmittedAndFound(t) /\ handlers[t].stored

\* C5, amended: without cancel-on-new-commit, a superseding synchronize
\* makes no stop call and exactly one submit call; when it returns the entry
\* holds the newly returned token if submit and the lookup of that token both
\* succeeded, and is left as it was otherwise.
C5_NoStopStillSubmits ==
  [][\A t \in Tasks :
       (Returns(t) /\ Superseding(t)' /\ ~cancelOnNewCommit)
         => SubmitOnly(t)' /\ EntryAtReturn(t)]_vars

\* C5's case: a superseding synchronize without cancel-on-new-commit has
\* been handled, the old build was never stopped, and the entry holds the
\* new token.
C5_Witness ==
  \E t \in Tasks :
    /\ Handled(t) /\ Superseding(t) /\ ~cancelOnNewCommit
    /\ SubmittedAndFound(t)
    /\ builds[handlers[t].calls[1].tok].stops = 0
    /\ trackedPullRequests[handlers[t].pull].currentBuild = SubmittedToken(t)

\* C6: closedPullRequest removes the entry while it holds g.m in write mode,
\* so that no other handler can be accessing the map at that moment.
C6_RemovalUnderWriteLock ==
  \A t \in Tasks :
    handlers[t].pc = "c_delete"
      => m.writer = t /\ \A u \in Tasks : ~Racing(t, u)

(***************************************************************************)
(* The claims about the OAuth session.                                      *)
(***************************************************************************)
\* the task is in init's wait for the client: it found g.client nil and is
\* about to call Wait(), or is inside Wait()
AwaitingClient(a) == attachers[a].pc \in {"i_wait", "i_blocked"}
\* a callback with the right state exchanged its code, installed the client
\* and broadcast
CallbackCompleted == \E c \in CallbackTasks : "broadcast" \in callbacks[c].did

\* C7: a callback whose state parameter is not the process nonce performs no
\* token exchange, installs no client, persists no token and makes no
\* Broadcast; it only answers the request.
C7_ForgedStateDoesNothing ==
  \A c \in CallbackTasks :
    (callbacks[c].pc # "idle" /\ callbacks[c].state # oauth2State)
      => callbacks[c].did = {} /\ callbacks[c].pc \in {"h_state", "done"}

\* C7's case: a callback with a forged state has been answered while a task
\* waits in init for the client: there is still no client, no token is
\* cached, and the task still waits.
C7_Witness ==
  \E c \in CallbackTasks, a \in AttachTasks :
    /\ callbacks[c].pc = "done" /\ callbacks[c].state # oauth2State
    /\ attachers[a].pc = "i_blocked" /\ a \in clientHasSet.notify
    /\ client = 0 /\ cache = ""

\* C8: the client is installed once: once g.client is set it is never
\* replaced by another client and never cleared.
C8_ClientInstalledOnce == [][client # 0 => client' = client]_vars

\* C9: under fair scheduling, a task waiting in init for the client resumes
\* once a callback has installed the client and broadcast, wherever the
\* task stood between its test of g.client and its entry into Wait().
C9_WaitersResume ==
  \A a \in AttachTasks :
    (AwaitingClient(a) /\ CallbackCompleted) ~> ~AwaitingClient(a)

(***************************************************************************)
(* The claims about the build ledger.                                       *)
(***************************************************************************)
\* Ref() and Unref() calls made on the handles 1..n
LedgerEffects[n \in 0..MaxBuilds] ==
  IF n = 0 THEN 0 ELSE refs[n] + unrefs[n] + LedgerEffects[n - 1]

\* C10: after any sequence of trackBuild and untrackBuild calls no token is
\* twice in the ledger, and for every build handle the references acquired
\* less the references released are 1 if its token is in the ledger and 0
\* otherwise.
C10_LedgerHoldsOneReference ==
  /\ \A i, j \in DOMAIN trackedBuilds : trackedBuilds[i] = trackedBuilds[j] => i = j
  /\ \A b \in Builds :
       refs[b] - unrefs[b] =
         IF \E i \in DOMAIN trackedBuilds : trackedBuilds[i] = b THEN 1 ELSE 0

\* C10's case: a handle was tracked, untracked and tracked again, and some
\* call was a no-op (a track of a tracked token or an untrack of an absent
\* one).
C10_Witness ==
  /\ \E b \in Builds : refs[b] = 2 /\ unrefs[b] = 1
  /\ ledgerCalls > LedgerEffects[MaxBuilds]

(***************************************************************************)
(* The claims about locking.                                                *)
(***************************************************************************)
\* the next step of the handler is a call that leaves the process: the
\* collaborator query, or a lookup, stop or submit of the build engine
AtOutboundCall(t) == handlers[t].pc \in {"t_collab", "b_submit", "b_store", "c_stop"}

\* C11: no handler issues an outbound call (the collaborator query, or an
\* engine lookup, stop or submit) while it holds g.m in write mode.
C11_NoOutboundCallUnderWriteLock ==
  \A t \in Tasks : AtOutboundCall(t) => m.writer # t

\* C12: every step that creates, changes or deletes an entry of the tracking
\* map is taken by a handler that holds g.m in write mode.
C12_MapWrittenUnderWriteLock ==
  [][\A p \in PullIDs :
       trackedPullRequests'[p] # trackedPullRequests[p]
         => \E t \in Tasks : /\ m.writer = t
                             /\ handlers[t].pull = p
                             /\ handlers'[t] # handlers[t]]_vars

(***************************************************************************)
(* The claims about buildPullRequest's submission.                          *)
(***************************************************************************)
\* the handler called NewBuild, and NewBuild returned a token
Submitted(t) == CallsOf(t, "submit") # {}
SubmitSucceeded(t) ==
  Submitted(t) /\ \A i \in CallsOf(t, "submit") : handlers[t].calls[i].ok

\* C13 as stated: a handler that called submit called it once; when it
\* returns, the entry holds the returned token if submit succeeded and is
\* left as it was if submit failed.
C13_Original ==
  [][\A t \in Tasks :
       (Returns(t) /\ Submitted(t)')
         => /\ Cardinality(CallsOf(t, "submit")') = 1
            /\ IF SubmitSucceeded(t)'
                 THEN /\ ~trackedPullRequests'[handlers[t].pull].absent
                      /\ trackedPullRequests'[handlers[t].pull].currentBuild
                           = SubmittedToken(t)'
                 ELSE trackedPullRequests' = trackedPullRequests]_vars

\* C13, amended: a handler that called submit called it once; when it
\* returns, the entry holds the returned token if submit and the lookup of
\* the returned token both succeeded, and is left as it was if either failed.
C13_SubmitOutcomeStored ==
  [][\A t \in Tasks :
       (Returns(t) /\ Submitted(t)')
         => /\ Cardinality(CallsOf(t, "submit")') = 1
            /\ EntryAtReturn(t)]_vars

\* C13's case: one handler's submit failed and it has returned, and another
\* handler's submit and lookup succeeded and the entry holds its token.
C13_Witness ==
  \E t, u \in Tasks :
    /\ Handled(t) /\ Submitted(t) /\ ~SubmitSucceeded(t)
    /\ Handled(u) /\ SubmittedAndFound(u)
    /\ trackedPullRequests[handlers[u].pull].currentBuild = SubmittedToken(u)

(***************************************************************************)
(* The claims about AttachToApp.                                            *)
(***************************************************************************)
\* setupDeployKey returned an error: no public key, or a provider error
\* other than "key is already in use"
DeployKeyFailed(a) == attachers[a].key \in {"nokey", "err"}

\* C14: when setupDeployKey fails for an application, its attachment is
\* aborted: no webhook is requested and no build-lifecycle listener is
\* registered for it.
C14_DeployKeyFailureAborts ==
  \A a \in AttachTasks :
    DeployKeyFailed(a) => attachers[a].hook # "requested" /\ ~attachers[a].listening

\* the next step of the task calls the provider through g.client:
\* Repositories.List in init, CreateKey in setupDeployKey, Get and CreateHook
\* in setupHooks
AtProviderCall(a) ==
  \/ attachers[a].pc = "i_list"
  \/ attachers[a].pc = "a_key" /\ attachers[a].publicKey
  \/ attachers[a].pc = "a_hooks"

\* C19: no AttachToApp task calls the provider while g.client is nil, also
\* when ClientID or ClientSecret is missing from the configuration.
C19_NoProviderCallWithoutClient ==
  [][\A a \in AttachTasks :
       (AtProviderCall(a) /\ attachers'[a].pc # attachers[a].pc) => client # 0]_vars

(***************************************************************************)
(* The claims about the gates of trackPullRequest.                          *)
(***************************************************************************)
\* the handler of a synchronize event found its pull request untracked
SynchronizeUnknown(t) == handlers[t].kind = "synchronize" /\ handlers[t].ok = "false"
\* both gates let the handler's event through
GatesPassed(t) == handlers[t].collab = "yes" /\ ~IsIgnoredBranch(handlers[t].base)
\* the handler is in or past the part of trackPullRequest behind the gates
BehindGates(t) ==
  \/ handlers[t].pc \in {"t_put", "b_read", "b_submit", "b_store"}
  \/ handlers[t].wrote
  \/ handlers[t].calls # <<>>
\* the handler found the entry holding a live build of its own head commit
FoundAlreadyBuilt(t) ==
  /\ Len(handlers[t].calls) = 1
  /\ handlers[t].calls[1].op = "lookup" /\ handlers[t].calls[1].ok
  /\ builds[handlers[t].calls[1].tok].head = handlers[t].head

ResolvedBuild(t) ==
  \E i \in CallsOf(t, "lookup") : handlers[t].calls[i].ok

\* C16: when the handler of a closed event returns, it has requested a stop
\* exactly if it found an entry, the entry's token resolved to a build and
\* cancel-on-new-commit is set, and the stop went to that build.  If it found
\* an entry, the entry is removed in the returning step, stop or no stop; if
\* it found none, it called the engine not at all and changed nothing.
C16_ClosedStopsIff ==
  [][\A t \in Tasks :
       (Returns(t) /\ handlers[t].kind = "closed")
         => /\ (CallsOf(t, "stop")' # {})
                 <=> (handlers'[t].wrote /\ ResolvedBuild(t)' /\ cancelOnNewCommit)
            /\ \A i \in CallsOf(t, "stop")' :
                 /\ i = 2
                 /\ handlers'[t].calls[1].op = "lookup"
                 /\ handlers'[t].calls[1].tok = handlers'[t].calls[2].tok
            /\ IF handlers'[t].wrote
                 THEN trackedPullRequests' =
                        [trackedPullRequests EXCEPT ![handlers[t].pull] = NoEntry]
                 ELSE /\ handlers'[t].calls = <<>>
                      /\ UNCHANGED <<trackedPullRequests, builds>>]_vars

\* C16's case: closed events have been handled, one for a tracked pull
\* request whose live build it stopped and whose entry is gone, one for an
\* untracked pull request.
C16_Witness ==
  \E t, u \in Tasks :
    /\ Handled(t) /\ handlers[t].kind = "closed"
    /\ CallsOf(t, "stop") = {2}
    /\ builds[handlers[t].calls[2].tok].stops = 1
    /\ trackedPullRequests[handlers[t].pull].absent
    /\ Handled(u) /\ handlers[u].kind = "closed" /\ ~handlers[u].wrote

(***************************************************************************)
(* The claims about failures of the collaborator query.                     *)
(***************************************************************************)
\* C17: a handler whose collaborator query returned an error has returned
\* without writing an entry and without a call to the build engine, and the
\* ledger is as it was.
C17_CollaboratorErrorFailsClosed ==
  \A t \in Tasks :
    handlers[t].collab = "err"
      => /\ handlers[t].pc = "done"
         /\ ~handlers[t].wrote
         /\ handlers[t].calls = <<>>
         /\ trackedBuilds = <<>> /\ ledgerCalls = 0

\* C17's case: the collaborator query failed for an opened event and for a
\* synchronize event of an untracked pull request, and both were handled.
C17_Witness ==
  \E t, u \in Tasks :
    /\ Handled(t) /\ handlers[t].kind = "opened" /\ handlers[t].collab = "err"
    /\ Handled(u) /\ SynchronizeUnknown(u) /\ handlers[u].collab = "err"

(***************************************************************************)
(* The claims about duplicate events and the provenance of tokens.          *)
(***************************************************************************)
\* C18: two opened events of one pull request with the same head commit,
\* and no other event of that pull request, yield exactly one submit call
\* once both are handled, when both passed the gates and no engine call
\* failed: the handler that comes second finds the live build of its commit
\* in the entry.
C18_OpenedDuplicateSuppressed ==
  \A a, b \in Tasks :
    (/\ a # b
     /\ Handled(a) /\ Handled(b)
     /\ handlers[a].kind = "opened" /\ handlers[b].kind = "opened"
     /\ handlers[a].pull = handlers[b].pull
     /\ handlers[a].head = handlers[b].head
     /\ GatesPassed(a) /\ GatesPassed(b)
     /\ ~SomeCallFailed(a) /\ ~SomeCallFailed(b)
     /\ \A c \in Tasks \ {a, b} : handlers[c].pull # handlers[a].pull)
      => /\ Cardinality(CallsOf(a, "submit")) + Cardinality(CallsOf(b, "submit")) = 1
         /\ CallsOf(a, "stop") = {} /\ CallsOf(b, "stop") = {}

\* the token is one NewBuild returned to a handler of an event of pull
\* request p, for a build whose group is p and whose head hash is the head
\* commit of that event
ReturnedFor(tok, p) ==
  /\ tok \in DOMAIN builds
  /\ builds[tok].group = p
  /\ \E t \in Tasks :
       /\ handlers[t].pull = p
       /\ handlers[t].head = builds[tok].head
       /\ \E i \in CallsOf(t, "submit") :
            handlers[t].calls[i].ok /\ handlers[t].calls[i].tok = tok

\* C20: every non-empty token in the entry of a pull request is one that a
\* successful submit returned for that pull request and for the head commit
\* of the event that was being handled.
C20_TokenProvenance ==
  \A p \in PullIDs :
    (~trackedPullRequests[p].absent /\ trackedPullRequests[p].currentBuild # NoToken)
      => ReturnedFor(trackedPullRequests[p].currentBuild, p)

\* C20's case: both pull requests are tracked, each with a token of its own,
\* and one of them has been built twice.
C20_Witness ==
  /\ \A p \in PullIDs :
       ~trackedPullRequests[p].absent /\ trackedPullRequests[p].currentBuild # NoToken
  /\ Len(builds) = 3

====
